---- MODULE Spec2Model ----
(***************************************************************************)
(* A model of ehr_data_quality_auditor.py: the data frame the pipeline     *)
(* annotates in place, and one action per pipeline stage                   *)
(* (missing_value_analysis, outlier_detection,                             *)
(* anomaly_detection_isolation_forest, clinical_range_check,               *)
(* pattern_and_format_checks, classify_errors_and_score).                  *)
(*                                                                         *)
(* Column names are modelled as the sequence of their '_'-separated        *)
(* pieces ("Skin_Thickness_Outlier" is <<"Skin","Thickness","Outlier">>),  *)
(* so that str.endswith('_Outlier') and str.split('_')[0] are computed as  *)
(* the code computes them.  Numbers are exact rationals n/d: the model     *)
(* leaves out the rounding of IEEE doubles, and weights are integers.      *)
(* The report table missing_value_analysis also returns (missing_df) is    *)
(* read by no stage and is left out.                                       *)
(***************************************************************************)
EXTENDS Integers, Sequences, FiniteSets, TLC

VARIABLES
    df,                    \* the data frame: [columns, rows]
    given,                 \* the frame as loaded, before any stage ran
    zero_as_missing_cols,  \* config: list of field names
    outlier_columns,       \* config: list of field names
    clinical_ranges,       \* config: list of <<field, low, high>> (dict order)
    error_weights,         \* the weight table object passed to the scorer
    iso_oracle,            \* what the seeded forest returns on the loaded data
    done,                  \* the stages that have returned or raised
    raised,                \* "none", or the exception that ended the run
    alt                    \* a second scoring of the same frame (other weights)

vars == <<df, given, zero_as_missing_cols, outlier_columns, clinical_ranges,
          error_weights, iso_oracle, done, raised, alt>>

----------------------------------------------------------------------------
(* Bounds of the model. *)

\* records per data set in the pipeline, missing-value and scoring models
NumRecords == 2

\* records per series in the outlier model (quartile fences need >= 4
\* values before a present value can fall outside them)
SeriesLen == 4

----------------------------------------------------------------------------
(* Cells.  Every cell has the same shape so that any two can be compared:  *)
(* k is the kind, n/d the number (d = 1 for integers and booleans), s the  *)
(* text, e the entries of an error log.                                    *)

Cell(k, n, d, s, e) == [k |-> k, n |-> n, d |-> d, s |-> s, e |-> e]

Num(n)    == Cell("num", n, 1, "", <<>>)
Rat(n, d) == Cell("num", n, d, "", <<>>)
NaN       == Cell("nan", 0, 1, "", <<>>)
Inf(sign) == Cell("inf", sign, 1, "", <<>>)
Str(s)    == Cell("str", 0, 1, s, <<>>)
Bool(b)   == Cell("bool", IF b THEN 1 ELSE 0, 1, "", <<>>)
Log(e)    == Cell("log", 0, 1, "", e)

IsNum(c)  == c.k = "num"
IsNull(c) == c.k = "nan"
Truthy(c) == c.k = "bool" /\ c.n = 1

(* Exact arithmetic on numeric cells; denominators stay positive. *)
RatAdd(a, b) == Rat(a.n * b.d + b.n * a.d, a.d * b.d)
RatSub(a, b) == Rat(a.n * b.d - b.n * a.d, a.d * b.d)
RatMul(a, b) == Rat(a.n * b.n, a.d * b.d)
RatDiv(a, b) == IF b.n > 0 THEN Rat(a.n * b.d, a.d * b.n)
                           ELSE Rat(0 - (a.n * b.d), 0 - (a.d * b.n))
RatLe(a, b)  == a.n * b.d <= b.n * a.d
RatEq(a, b)  == a.n * b.d = b.n * a.d

(* IEEE arithmetic as numpy applies it to a column: x / 0 is NaN for x = 0 *)
(* and a signed infinity otherwise, and both propagate.                    *)
FloatDiv(a, b) ==
    IF ~IsNum(a) \/ ~IsNum(b) THEN NaN
    ELSE IF b.n # 0 THEN RatDiv(a, b)
    ELSE IF a.n = 0 THEN NaN
    ELSE Inf(IF a.n > 0 THEN 1 ELSE 0 - 1)

FloatMul(a, b) ==
    IF IsNum(a) /\ IsNum(b) THEN RatMul(a, b)
    ELSE IF a.k = "inf" /\ IsNum(b) /\ b.n # 0
         THEN Inf(IF b.n > 0 THEN a.n ELSE 0 - a.n)
    ELSE NaN

FloatAdd(a, b) ==
    IF IsNum(a) /\ IsNum(b) THEN RatAdd(a, b)
    ELSE IF IsNum(a) /\ b.k = "inf" THEN b
    ELSE NaN

FloatSub(a, b) ==
    IF IsNum(a) /\ IsNum(b) THEN RatSub(a, b)
    ELSE IF IsNum(a) /\ b.k = "inf" THEN Inf(0 - b.n)
    ELSE NaN

----------------------------------------------------------------------------
(* Names. *)

Name(field, kind) == Append(field, kind)

Age            == <<"Age">>
SkinThickness  == <<"Skin", "Thickness">>
Sex            == <<"Sex">>
Insulin        == <<"Insulin">>          \* never a field of a modelled data set
RowAnomalyIF   == <<"Row", "AnomalyIF">>
Completeness   == <<"Completeness", "Score (%)">>
WeightedErrors == <<"Weighted", "Errors">>
TotalErrors    == <<"Total", "Errors">>
QualityScore   == <<"Quality", "Score (%)">>
RowIndex       == <<"Row", "Index">>
ErrorLog       == <<"Error", "Log">>

(* col.endswith('_' + kind) *)
EndsWith(col, kind) == Len(col) >= 2 /\ col[Len(col)] = kind

FlagKinds == {"Missing", "Outlier", "RangeError", "FormatError", "AnomalyIF"}

----------------------------------------------------------------------------
(* Frames: columns in order, and one row (column name -> cell) per record. *)

Range(s) == {s[i] : i \in DOMAIN s}

NRows(f) == Len(f.rows)

HasColumn(f, col) == col \in Range(f.columns)

Column(f, col) == [i \in 1..NRows(f) |-> f.rows[i][col]]

(* df[col] = values: a new column is appended, an existing one keeps its   *)
(* place.                                                                  *)
SetColumn(f, col, values) ==
    [columns |-> IF HasColumn(f, col) THEN f.columns ELSE Append(f.columns, col),
     rows    |-> [i \in 1..NRows(f) |->
                    [c \in Range(f.columns) \cup {col} |->
                        IF c = col THEN values[i] ELSE f.rows[i][c]]]]

(* row.get(col, default) *)
RowGet(row, col, default) == IF col \in DOMAIN row THEN row[col] ELSE default

(* The result of a stage: the frame as the call left it, and what it raised. *)
Outcome(f, exc) == [df |-> f, raised |-> exc]

----------------------------------------------------------------------------
(* Module 2: missing_value_analysis *)

\* additional_missing_values, as defaulted
AdditionalMissingValues == {"", "N/A", "Unknown"}

(* df.replace(additional_missing_values, np.nan, inplace=True) *)
ReplaceMissing(f) ==
    [columns |-> f.columns,
     rows    |-> [i \in 1..NRows(f) |->
                    [c \in Range(f.columns) |->
                        IF f.rows[i][c].k = "str" /\ f.rows[i][c].s \in AdditionalMissingValues
                        THEN NaN ELSE f.rows[i][c]]]]

(* value == 0, elementwise (False == 0 holds in Python) *)
EqZero(c) == c.k \in {"num", "bool"} /\ c.n = 0

(* for col in zero_as_missing_cols: df[col + "_Missing"] = df[col] == 0    *)
(* df[col] raises KeyError for a name that is no column; the flags of the  *)
(* names before it are already in the frame.                               *)
RECURSIVE ZeroFlags(_, _)
ZeroFlags(f, cols) ==
    IF cols = <<>> THEN Outcome(f, "none")
    ELSE IF ~HasColumn(f, Head(cols)) THEN Outcome(f, "KeyError")
    ELSE ZeroFlags(SetColumn(f, Name(Head(cols), "Missing"),
                             [i \in 1..NRows(f) |-> Bool(EqZero(f.rows[i][Head(cols)]))]),
                   Tail(cols))

(* len(df.columns) - sum(col.endswith('_Missing') for col in df.columns) *)
(* (DataColsCountLen: the variant that forgets to take the flags out)      *)
DataColsCountLen(f) == Len(f.columns)
DataColsCount(f) ==
    Len(f.columns) - Cardinality({i \in DOMAIN f.columns : EndsWith(f.columns[i], "Missing")})

(* sum([row.get(col + "_Missing", False) for col in zero_as_missing_cols]) *)
RECURSIVE ZeroMiss(_, _)
ZeroMiss(row, cols) ==
    IF cols = <<>> THEN 0
    ELSE RowGet(row, Name(Head(cols), "Missing"), Bool(FALSE)).n + ZeroMiss(row, Tail(cols))

(* row.isnull().sum() *)
NullCount(row) == Cardinality({c \in DOMAIN row : IsNull(row[c])})

(* completeness(row): 100 * (1 - total_missing / data_cols_count) *)
completeness(row, cols, data_cols_count) ==
    FloatMul(Num(100),
             FloatSub(Num(1),
                      FloatDiv(Num(NullCount(row) + ZeroMiss(row, cols)),
                               Num(data_cols_count))))

missing_value_analysis(f, cols) ==
    LET flagged == ZeroFlags(ReplaceMissing(f), cols)
        g       == flagged.df
    IN  IF flagged.raised # "none" THEN flagged
        ELSE Outcome(SetColumn(g, Completeness,
                               [i \in 1..NRows(g) |->
                                   completeness(g.rows[i], cols, DataColsCount(g))]),
                     "none")

----------------------------------------------------------------------------
(* Module 3: outlier detection *)

(* The non-missing values of a series, ascending. *)
RECURSIVE Insert(_, _)
Insert(x, s) ==
    IF s = <<>> THEN <<x>>
    ELSE IF x <= Head(s) THEN <<x>> \o s
    ELSE <<Head(s)>> \o Insert(x, Tail(s))

RECURSIVE SortedPresent(_)
SortedPresent(series) ==
    IF series = <<>> THEN <<>>
    ELSE IF IsNum(Head(series)) THEN Insert(Head(series).n, SortedPresent(Tail(series)))
    ELSE SortedPresent(Tail(series))

(* series.quantile(a/b): missing values are skipped, linear interpolation  *)
(* at position (n - 1) * a / b of the sorted values; NaN when none is      *)
(* present.                                                                *)
quantile(series, a, b) ==
    LET xs   == SortedPresent(series)
        n    == Len(xs)
        pos  == (n - 1) * a
        lo   == (pos \div b) + 1
        rest == pos % b
    IN  IF n = 0 THEN NaN
        ELSE IF rest = 0 THEN Num(xs[lo])
        ELSE RatAdd(Num(xs[lo]), RatMul(Rat(rest, b), Num(xs[lo + 1] - xs[lo])))

(* series.between(lower, upper): (series >= lower) & (series <= upper);    *)
(* a comparison with NaN on either side is False.                          *)
between(c, lower, upper) ==
    /\ IsNum(c) /\ IsNum(lower) /\ IsNum(upper)
    /\ RatLe(lower, c) /\ RatLe(c, upper)

(* The fence of detect_outliers_iqr. *)
Fence(series) ==
    LET Q1  == quantile(series, 1, 4)
        Q3  == quantile(series, 3, 4)
        IQR == FloatSub(Q3, Q1)
    IN  [lower |-> FloatSub(Q1, FloatMul(Rat(3, 2), IQR)),
         upper |-> FloatAdd(Q3, FloatMul(Rat(3, 2), IQR))]

(* return ~series.between(lower, upper) *)
detect_outliers_iqr(series) ==
    LET fence == Fence(series)
    IN  [i \in DOMAIN series |-> Bool(~between(series[i], fence.lower, fence.upper))]

RECURSIVE outlier_detection(_, _)
outlier_detection(f, cols) ==
    IF cols = <<>> THEN Outcome(f, "none")
    ELSE IF ~HasColumn(f, Head(cols)) THEN Outcome(f, "KeyError")
    ELSE outlier_detection(SetColumn(f, Name(Head(cols), "Outlier"),
                                     detect_outliers_iqr(Column(f, Head(cols)))),
                           Tail(cols))

----------------------------------------------------------------------------
(* Module 3b: isolation forest *)

(* iso.fit_predict(X) is a library call: a function of X alone, the seed   *)
(* being fixed (random_state=42).  With contamination=0.05 it flags the    *)
(* records whose score lies strictly below the 5th percentile of the       *)
(* scores, at most one record of a small data set.  On a matrix that still *)
(* holds a NaN (a column with no value at all has no median) the library   *)
(* either raises ValueError or predicts, depending on its version.         *)
Predictions(n) == {[i \in 1..n |-> i = j] : j \in 0..n}

FitResults(n) == [raised : {"none"}, preds : Predictions(n)]
FitFailure(n) == [raised |-> "ValueError", preds |-> [i \in 1..n |-> FALSE]]

(* df[cols].copy().fillna(df[cols].median()) *)
Imputed(f, cols) ==
    [i \in 1..NRows(f) |->
        [c \in Range(cols) |->
            IF IsNull(f.rows[i][c]) THEN quantile(Column(f, c), 1, 2)
                                    ELSE f.rows[i][c]]]

HasNull(X) == \E i \in DOMAIN X : \E c \in DOMAIN X[i] : ~IsNum(X[i][c])

FitOutcomes(X) ==
    IF HasNull(X) THEN FitResults(Len(X)) \cup {FitFailure(Len(X))}
                  ELSE FitResults(Len(X))

(* anomaly_detection_isolation_forest(df, cols), given what fit_predict    *)
(* returns on its matrix.                                                  *)
anomaly_detection_isolation_forest(f, cols, fit) ==
    IF \E i \in DOMAIN cols : ~HasColumn(f, cols[i]) THEN Outcome(f, "KeyError")
    ELSE IF fit.raised # "none" THEN Outcome(f, fit.raised)
    ELSE Outcome(SetColumn(f, RowAnomalyIF, [i \in 1..NRows(f) |-> Bool(fit.preds[i])]),
                 "none")

----------------------------------------------------------------------------
(* Module 4: clinical range check *)

(* clinical_range_check_masking: the variant that also blanks the values  *)
(* it rejects.                                                             *)
RECURSIVE clinical_range_check_masking(_, _)
clinical_range_check_masking(f, ranges) ==
    IF ranges = <<>> THEN Outcome(f, "none")
    ELSE LET col  == Head(ranges)[1]
             low  == Num(Head(ranges)[2])
             high == Num(Head(ranges)[3])
             flag == [i \in 1..NRows(f) |-> Bool(~between(f.rows[i][col], low, high))]
             kept == [i \in 1..NRows(f) |->
                         IF between(f.rows[i][col], low, high) THEN f.rows[i][col] ELSE NaN]
         IN  IF HasColumn(f, col)
             THEN clinical_range_check_masking(
                      SetColumn(SetColumn(f, col, kept), Name(col, "RangeError"), flag),
                      Tail(ranges))
             ELSE clinical_range_check_masking(f, Tail(ranges))

RECURSIVE clinical_range_check(_, _)
clinical_range_check(f, ranges) ==
    IF ranges = <<>> THEN Outcome(f, "none")
    ELSE LET col  == Head(ranges)[1]
             low  == Num(Head(ranges)[2])
             high == Num(Head(ranges)[3])
         IN  IF HasColumn(f, col)
             THEN clinical_range_check(
                      SetColumn(f, Name(col, "RangeError"),
                                [i \in 1..NRows(f) |-> Bool(~between(f.rows[i][col], low, high))]),
                      Tail(ranges))
             ELSE clinical_range_check(f, Tail(ranges))

----------------------------------------------------------------------------
(* Module 5: pattern / format validation *)

(* isinstance(x, (int, float, np.integer)) and 0 <= x <= 120; NaN is a     *)
(* float that fails both comparisons.                                      *)
AgeFormatOk(c) == IsNum(c) /\ RatLe(Num(0), c) /\ RatLe(c, Num(120))

pattern_and_format_checks(f) ==
    IF ~HasColumn(f, Age) THEN Outcome(f, "KeyError")
    ELSE Outcome(SetColumn(f, Name(Age, "FormatError"),
                           [i \in 1..NRows(f) |-> Bool(~AgeFormatOk(f.rows[i][Age]))]),
                 "none")

----------------------------------------------------------------------------
(* Module 6: scoring *)

IsErrorCol(col) == \E kind \in FlagKinds : EndsWith(col, kind)

(* [col for col in df.columns if col.endswith((...))] *)
ErrorCols(f) == SelectSeq(f.columns, IsErrorCol)

(* for col in error_cols: error_weights.setdefault(col, 1) *)
SetDefaults(weights, error_cols) ==
    [k \in DOMAIN weights \cup Range(error_cols) |->
        IF k \in DOMAIN weights THEN weights[k] ELSE 1]

(* sum(error_weights.values()) *)
RECURSIVE SumOver(_, _)
SumOver(weights, keys) ==
    IF keys = {} THEN 0
    ELSE LET k == CHOOSE x \in keys : TRUE
         IN  weights[k] + SumOver(weights, keys \ {k})

TotalWeight(weights) == SumOver(weights, DOMAIN weights)

(* sum(df[col].astype(int) * error_weights[col] for col in error_cols)    *)
(* (WeightAllFlags: the variant that adds a flag's weight whether or not   *)
(* the flag is true)                                                       *)
RECURSIVE WeightAllFlags(_, _, _)
WeightAllFlags(row, error_cols, weights) ==
    IF error_cols = <<>> THEN 0
    ELSE weights[Head(error_cols)] + WeightAllFlags(row, Tail(error_cols), weights)

RECURSIVE WeightedSum(_, _, _)
WeightedSum(row, error_cols, weights) ==
    IF error_cols = <<>> THEN 0
    ELSE row[Head(error_cols)].n * weights[Head(error_cols)]
         + WeightedSum(row, Tail(error_cols), weights)

(* df[error_cols].sum(axis=1)                                             *)
(* (CountAll: the variant df[error_cols].count(axis=1))                    *)
CountAll(row, error_cols) == Len(error_cols)
CountTrue(row, error_cols) ==
    Cardinality({i \in DOMAIN error_cols : row[error_cols[i]].n = 1})

(* 100 - (df['Weighted_Errors'] / total_weight * 100)                     *)
(* (QualityUnscaled: the variant that drops the "* 100")                   *)
QualityUnscaled(weighted, total) ==
    FloatSub(Num(100), FloatDiv(Num(weighted), Num(total)))
Quality(weighted, total) ==
    FloatSub(Num(100), FloatMul(FloatDiv(Num(weighted), Num(total)), Num(100)))

(* error_log(row): the entries are kept apart, each the flag's name and    *)
(* the value printed with it; "; ".join(errors) of no entry is replaced by *)
(* the text "No Errors" (error_log_always_joined: the variant that        *)
(* returns the join as it is).                                             *)
RECURSIVE Entries(_, _)
Entries(row, error_cols) ==
    IF error_cols = <<>> THEN <<>>
    ELSE LET col      == Head(error_cols)
             base_col == <<col[1]>>
             value    == RowGet(row, base_col, Str("N/A"))
         IN  (IF Truthy(row[col]) THEN <<[flag |-> col, value |-> value]>> ELSE <<>>)
             \o Entries(row, Tail(error_cols))

error_log_always_joined(row, error_cols) == Log(Entries(row, error_cols))
error_log(row, error_cols) ==
    IF Entries(row, error_cols) # <<>> THEN Log(Entries(row, error_cols))
                                      ELSE Str("No Errors")

(* df.reset_index(inplace=True); df.rename(columns={'index': 'Row_Index'}) *)
ResetIndex(f) ==
    [columns |-> <<RowIndex>> \o f.columns,
     rows    |-> [i \in 1..NRows(f) |->
                    [c \in Range(f.columns) \cup {RowIndex} |->
                        IF c = RowIndex THEN Num(i - 1) ELSE f.rows[i][c]]]]

classify_errors_and_score(f, passed) ==
    LET error_cols   == ErrorCols(f)
        weights      == SetDefaults(passed, error_cols)
        total_weight == TotalWeight(weights)
        f1 == SetColumn(f, WeightedErrors,
                  [i \in 1..NRows(f) |-> Num(WeightedSum(f.rows[i], error_cols, weights))])
        f2 == SetColumn(f1, TotalErrors,
                  [i \in 1..NRows(f) |-> Num(CountTrue(f.rows[i], error_cols))])
        f3 == SetColumn(f2, QualityScore,
                  [i \in 1..NRows(f) |-> Quality(f2.rows[i][WeightedErrors].n, total_weight)])
        f4 == ResetIndex(f3)
        f5 == SetColumn(f4, ErrorLog,
                  [i \in 1..NRows(f) |-> error_log(f4.rows[i], error_cols)])
    IN  [df |-> f5, raised |-> "none", weights |-> weights, error_cols |-> error_cols]

----------------------------------------------------------------------------
(* The inputs the models draw from. *)

Records == 1..NumRecords

\* a numeric cell as read_csv gives it: a number, or NaN for an empty cell
NumericValues == {NaN, Num(0), Num(1)}
\* a text cell, one of them a placeholder of missing_value_analysis
TextValues == {Str("F"), Str("Unknown")}

Frame(columns, rows) == [columns |-> columns, rows |-> rows]

NoFrame == [columns |-> <<>>, rows |-> <<>>]
NoAlt   == [ran |-> FALSE, df |-> NoFrame, weights |-> <<>>]

(* Data sets of the pipeline model: Age and Skin_Thickness. *)
AgeColumns == {[i \in Records |-> Num(40)],
               [i \in Records |-> IF i = 1 THEN Num(130) ELSE Num(40)]}

PipelineFrames ==
    {Frame(<<Age, SkinThickness>>,
           [i \in Records |-> (Age :> age[i]) @@ (SkinThickness :> thickness[i])]) :
        age \in AgeColumns, thickness \in [Records -> NumericValues]}

(* config.json of the pipeline model: every list names Skin_Thickness, and *)
(* at most one of them also names Insulin, which the data set lacks.       *)
Config(zeros, outliers, ranges) ==
    [zero_as_missing_cols |-> zeros, outlier_columns |-> outliers,
     clinical_ranges |-> ranges]

PipelineConfigs ==
    {Config(<<SkinThickness>>, <<SkinThickness>>, <<<<SkinThickness, 1, 50>>>>),
     Config(<<SkinThickness, Insulin>>, <<SkinThickness>>, <<<<SkinThickness, 1, 50>>>>),
     Config(<<SkinThickness>>, <<SkinThickness, Insulin>>, <<<<SkinThickness, 1, 50>>>>),
     Config(<<SkinThickness>>, <<SkinThickness>>,
            <<<<Insulin, 15, 276>>, <<SkinThickness, 1, 50>>>>)}

(* error_weights of the pipeline model: none given, or distinct weights. *)
PipelineWeights ==
    {<<>>,
     (Name(SkinThickness, "Missing") :> 1) @@ (Name(SkinThickness, "Outlier") :> 2)
        @@ (RowAnomalyIF :> 4) @@ (Name(SkinThickness, "RangeError") :> 8)
        @@ (Name(Age, "FormatError") :> 16)}

FitOf(f, cols) ==
    IF \A i \in DOMAIN cols : HasColumn(f, cols[i])
    THEN FitOutcomes(Imputed(f, cols))
    ELSE {FitFailure(NRows(f))}

Init ==
    /\ given \in PipelineFrames
    /\ df = given
    /\ \E c \in PipelineConfigs :
          /\ zero_as_missing_cols = c.zero_as_missing_cols
          /\ outlier_columns = c.outlier_columns
          /\ clinical_ranges = c.clinical_ranges
    /\ iso_oracle \in FitOf(given, outlier_columns)
    /\ error_weights = <<>>
    /\ done = {}
    /\ raised = "none"
    /\ alt = NoAlt

----------------------------------------------------------------------------
(* The stages.  A stage that raises ends the run: main() catches nothing. *)

Detectors == {"outlier", "anomaly", "range", "format"}

MissingValueAnalysis ==
    /\ raised = "none"
    /\ done = {}
    /\ LET r == missing_value_analysis(df, zero_as_missing_cols)
       IN  df' = r.df /\ raised' = r.raised
    /\ done' = done \cup {"missing"}
    /\ UNCHANGED <<given, zero_as_missing_cols, outlier_columns, clinical_ranges,
                   error_weights, iso_oracle, alt>>

OutlierDetection ==
    /\ raised = "none"
    /\ "outlier" \notin done /\ "score" \notin done
    /\ LET r == outlier_detection(df, outlier_columns)
       IN  df' = r.df /\ raised' = r.raised
    /\ done' = done \cup {"outlier"}
    /\ UNCHANGED <<given, zero_as_missing_cols, outlier_columns, clinical_ranges,
                   error_weights, iso_oracle, alt>>

(* The forest's answer is a function of the matrix it is fitted on: the    *)
(* recorded one for the matrix of the loaded data, any other otherwise.    *)
AnomalyDetection ==
    /\ raised = "none"
    /\ "anomaly" \notin done /\ "score" \notin done
    /\ \E fit \in (IF /\ \A i \in DOMAIN outlier_columns :
                            HasColumn(df, outlier_columns[i])
                      /\ Imputed(df, outlier_columns) # Imputed(given, outlier_columns)
                   THEN FitOutcomes(Imputed(df, outlier_columns))
                   ELSE {iso_oracle}) :
          LET r == anomaly_detection_isolation_forest(df, outlier_columns, fit)
          IN  df' = r.df /\ raised' = r.raised
    /\ done' = done \cup {"anomaly"}
    /\ UNCHANGED <<given, zero_as_missing_cols, outlier_columns, clinical_ranges,
                   error_weights, iso_oracle, alt>>

ClinicalRangeCheck ==
    /\ raised = "none"
    /\ "range" \notin done /\ "score" \notin done
    /\ LET r == clinical_range_check(df, clinical_ranges)
       IN  df' = r.df /\ raised' = r.raised
    /\ done' = done \cup {"range"}
    /\ UNCHANGED <<given, zero_as_missing_cols, outlier_columns, clinical_ranges,
                   error_weights, iso_oracle, alt>>

PatternAndFormatChecks ==
    /\ raised = "none"
    /\ "format" \notin done /\ "score" \notin done
    /\ LET r == pattern_and_format_checks(df)
       IN  df' = r.df /\ raised' = r.raised
    /\ done' = done \cup {"format"}
    /\ UNCHANGED <<given, zero_as_missing_cols, outlier_columns, clinical_ranges,
                   error_weights, iso_oracle, alt>>

Score(passed) ==
    /\ raised = "none"
    /\ "score" \notin done
    /\ LET r == classify_errors_and_score(df, passed)
       IN  df' = r.df /\ raised' = r.raised /\ error_weights' = r.weights
    /\ done' = done \cup {"score"}
    /\ UNCHANGED <<given, zero_as_missing_cols, outlier_columns, clinical_ranges,
                   iso_oracle, alt>>

ClassifyErrorsAndScore == \E passed \in PipelineWeights : Score(passed)

(* main(): the missing-value analysis, the four detectors (each adds flag  *)
(* fields of its own; modelled in every order), then the scoring.          *)
Next ==
    \/ MissingValueAnalysis
    \/ "missing" \in done /\ OutlierDetection
    \/ "missing" \in done /\ AnomalyDetection
    \/ "missing" \in done /\ ClinicalRangeCheck
    \/ "missing" \in done /\ PatternAndFormatChecks
    \/ Detectors \subseteq done /\ ClassifyErrorsAndScore

Spec == Init /\ [][Next]_vars

----------------------------------------------------------------------------
(* The missing-value model: missing_value_analysis alone, on data sets     *)
(* with a numeric and a text field.                                        *)

MissingFrames ==
    {Frame(<<SkinThickness, Sex>>,
           [i \in Records |-> (SkinThickness :> thickness[i]) @@ (Sex :> sex[i])]) :
        sex \in [Records -> TextValues], thickness \in [Records -> NumericValues]}

ZeroAsMissingChoices ==
    {<<>>, <<SkinThickness>>, <<Sex, SkinThickness>>, <<SkinThickness, Insulin>>}

InitMissing ==
    /\ given \in MissingFrames
    /\ df = given
    /\ zero_as_missing_cols \in ZeroAsMissingChoices
    /\ outlier_columns = <<>>
    /\ clinical_ranges = <<>>
    /\ iso_oracle = FitFailure(NumRecords)
    /\ error_weights = <<>>
    /\ done = {}
    /\ raised = "none"
    /\ alt = NoAlt

NextMissing == MissingValueAnalysis

SpecMissing == InitMissing /\ [][NextMissing]_vars

----------------------------------------------------------------------------
(* The outlier model: outlier_detection alone, on one numeric field long   *)
(* enough for a value to fall outside the fence.                           *)

SeriesFrames ==
    {Frame(<<SkinThickness>>, [i \in 1..SeriesLen |-> (SkinThickness :> thickness[i])]) :
        thickness \in [1..SeriesLen -> NumericValues]}

OutlierColumnChoices ==
    {<<SkinThickness>>, <<SkinThickness, Insulin>>, <<Insulin, SkinThickness>>}

InitOutlier ==
    /\ given \in SeriesFrames
    /\ df = given
    /\ zero_as_missing_cols = <<>>
    /\ outlier_columns \in OutlierColumnChoices
    /\ clinical_ranges = <<>>
    /\ iso_oracle = FitFailure(SeriesLen)
    /\ error_weights = <<>>
    /\ done = {}
    /\ raised = "none"
    /\ alt = NoAlt

NextOutlier == OutlierDetection

SpecOutlier == InitOutlier /\ [][NextOutlier]_vars

----------------------------------------------------------------------------
(* The scoring model: classify_errors_and_score on a frame that already    *)
(* carries flag fields, under a weight table, and a second time on the     *)
(* same frame under a table that differs in one weight.                    *)

\* the flag fields of the frame, in column order: which detectors ran
FlagColumnChoices ==
    {<<Name(SkinThickness, "Missing"), Name(SkinThickness, "Outlier")>>,
     <<RowAnomalyIF, Name(Age, "FormatError")>>,
     <<Name(SkinThickness, "RangeError"), Name(Age, "FormatError")>>,
     <<Name(Age, "RangeError"), RowAnomalyIF>>}

\* a flag a configuration may weight although no detector produced it
AbsentFlag == <<"BMI", "RangeError">>

WeightValues == {0 - 1, 0, 2}

(* A record flagged Age_FormatError holds an age the format check rejects, *)
(* one flagged Skin_Thickness_Missing holds 0.                             *)
FlaggedFrame(flags, truth) ==
    Frame(<<Age, SkinThickness, Completeness>> \o flags,
          [i \in Records |->
              [c \in {Age, SkinThickness, Completeness} \cup Range(flags) |->
                  IF c = Age
                  THEN (IF Name(Age, "FormatError") \in truth[i] THEN Num(130)
                                                                ELSE Num(40 + i))
                  ELSE IF c = SkinThickness
                  THEN (IF Name(SkinThickness, "Missing") \in truth[i] THEN Num(0)
                                                                       ELSE Num(10 + i))
                  ELSE IF c = Completeness THEN Num(100)
                  ELSE Bool(c \in truth[i])]])

FlaggedFrames ==
    UNION {{FlaggedFrame(flags, truth) : truth \in [Records -> SUBSET Range(flags)]} :
              flags \in FlagColumnChoices}

(* the tables a caller may pass for a frame: any of its flags left out     *)
(* (defaulted to 1) or weighted, the absent flag left out or weighted      *)
PassedWeights(f) ==
    UNION {[keys -> WeightValues] :
              keys \in SUBSET (Range(ErrorCols(f)) \cup {AbsentFlag})}

InitScore ==
    /\ given \in FlaggedFrames
    /\ df = given
    /\ zero_as_missing_cols = <<>>
    /\ outlier_columns = <<>>
    /\ clinical_ranges = <<>>
    /\ iso_oracle = FitFailure(NumRecords)
    /\ error_weights = <<>>
    /\ done = {}
    /\ raised = "none"
    /\ alt = NoAlt

ClassifyFrame == \E passed \in PassedWeights(df) : Score(passed)

(* classify_errors_and_score on a copy of the same frame, with the table   *)
(* of the first run changed in the weight of one flag                      *)
ClassifyAgain ==
    /\ "score" \in done
    /\ ~alt.ran
    /\ \E k \in DOMAIN error_weights :
          \E w \in WeightValues \ {error_weights[k]} :
             LET r == classify_errors_and_score(given, [error_weights EXCEPT ![k] = w])
             IN  alt' = [ran |-> TRUE, df |-> r.df, weights |-> r.weights]
    /\ UNCHANGED <<df, given, zero_as_missing_cols, outlier_columns, clinical_ranges,
                   error_weights, iso_oracle, done, raised>>

NextScore == ClassifyFrame \/ ClassifyAgain

SpecScore == InitScore /\ [][NextScore]_vars

----------------------------------------------------------------------------
(* Properties.                                                             *)

Scored == "score" \in done /\ raised = "none"

IsFlag(col) ==
    \/ EndsWith(col, "Missing") \/ EndsWith(col, "Outlier")
    \/ EndsWith(col, "RangeError") \/ EndsWith(col, "FormatError")
    \/ EndsWith(col, "AnomalyIF")

(* the flag fields of the frame handed to the scorer that are true for     *)
(* record i                                                                *)
TrueFlags(f, i) == {c \in Range(f.columns) : IsFlag(c) /\ Truthy(f.rows[i][c])}

NeverTrue(f, flag) == \A i \in 1..NRows(f) : flag \notin TrueFlags(f, i)

SameCell(a, b) ==
    /\ a.k = b.k
    /\ IF IsNum(a) THEN RatEq(a, b) ELSE a = b

(* the two tables differ in the weight of flag k and in nothing else *)
DifferOnlyAt(t, u, k) ==
    /\ DOMAIN t = DOMAIN u
    /\ k \in DOMAIN t
    /\ t[k] # u[k]
    /\ \A j \in DOMAIN t \ {k} : t[j] = u[j]

ScoredTwice(k) ==
    /\ Scored /\ alt.ran
    /\ DifferOnlyAt(error_weights, alt.weights, k)
    /\ NeverTrue(given, k)

\* C1, as stated: for two weight tables that differ only in the weight of a
\* flag that is true for no record, every record gets the same Quality_Score
\* under both.
C1_SameQualityScore ==
    \A k \in DOMAIN alt.weights :
        ScoredTwice(k) =>
            \A i \in 1..NRows(given) :
                SameCell(df.rows[i][QualityScore], alt.df.rows[i][QualityScore])

\* C1, amended: for two weight tables that differ only in the weight of a
\* flag that is true for no record, every record gets the same
\* Weighted_Errors and Total_Errors under both; a record whose
\* Weighted_Errors is 0 gets the same Quality_Score (100) under both when
\* neither table sums to 0, and then (100 - Quality_Score) * total_weight
\* is the same under both (100 * Weighted_Errors) for every record: the
\* score of a record with errors is rescaled, total_weight counting the
\* changed weight.
C1_SameWeightedErrors ==
    \A k \in DOMAIN alt.weights :
        ScoredTwice(k) =>
            \A i \in 1..NRows(given) :
                LET a == df.rows[i]
                    b == alt.df.rows[i]
                IN  /\ a[WeightedErrors] = b[WeightedErrors]
                    /\ a[TotalErrors] = b[TotalErrors]
                    /\ ( /\ a[WeightedErrors].n = 0
                         /\ TotalWeight(error_weights) # 0
                         /\ TotalWeight(alt.weights) # 0
                         => /\ SameCell(a[QualityScore], Num(100))
                            /\ SameCell(b[QualityScore], Num(100)) )
                    /\ ( /\ TotalWeight(error_weights) # 0
                         /\ TotalWeight(alt.weights) # 0
                         => /\ IsNum(a[QualityScore]) /\ IsNum(b[QualityScore])
                            /\ RatEq(RatMul(RatSub(Num(100), a[QualityScore]),
                                            Num(TotalWeight(error_weights))),
                                     RatMul(RatSub(Num(100), b[QualityScore]),
                                            Num(TotalWeight(alt.weights)))) )

C1_Witness ==
    \E k \in DOMAIN alt.weights :
        /\ ScoredTwice(k)
        /\ HasColumn(given, k)
        /\ TotalWeight(error_weights) > 0
        /\ TotalWeight(alt.weights) > 0
        /\ \E i \in 1..NRows(given) : df.rows[i][WeightedErrors].n = 0
        /\ \E i \in 1..NRows(given) : df.rows[i][WeightedErrors].n > 0

\* C2, as stated: when the weights of the table sum to 0, the scoring ends
\* in an explicit failure and no record is given a Quality_Score.
C2_ZeroTotalWeightFails ==
    ("score" \in done /\ TotalWeight(error_weights) = 0)
        => (raised # "none" /\ ~HasColumn(df, QualityScore))

\* C3: after scoring under a table of non-negative weights whose sum
\* total_weight is > 0, every record has Weighted_Errors = the sum of the
\* weights of its true flags, Quality_Score = 100 * (1 - Weighted_Errors /
\* total_weight), and 0 <= Quality_Score <= 100.
C3_QualityScoreFormula ==
    ( /\ Scored
      /\ \A k \in DOMAIN error_weights : error_weights[k] >= 0
      /\ TotalWeight(error_weights) > 0 )
    => \A i \in 1..NRows(given) :
          LET weighted == SumOver(error_weights, TrueFlags(given, i))
              total    == TotalWeight(error_weights)
              score    == df.rows[i][QualityScore]
          IN  /\ df.rows[i][WeightedErrors] = Num(weighted)
              /\ IsNum(score)
              /\ RatEq(score, RatMul(Num(100), RatSub(Num(1), Rat(weighted, total))))
              /\ RatLe(Num(0), score) /\ RatLe(score, Num(100))

C3_Witness ==
    /\ Scored
    /\ \A k \in DOMAIN error_weights : error_weights[k] >= 0
    /\ TotalWeight(error_weights) > 0
    /\ \E i \in 1..NRows(given) :
          /\ IsNum(df.rows[i][QualityScore])
          /\ ~RatLe(df.rows[i][QualityScore], Num(0))
          /\ ~RatLe(Num(100), df.rows[i][QualityScore])

\* C5: after scoring with total_weight > 0, a record with no true flag has
\* Quality_Score = 100 and Error_Log = "No Errors", and a record with a true
\* flag has an Error_Log other than "No Errors".
C5_NoErrorsSentinel ==
    (Scored /\ TotalWeight(error_weights) > 0)
    => \A i \in 1..NRows(given) :
          IF TrueFlags(given, i) = {}
          THEN /\ SameCell(df.rows[i][QualityScore], Num(100))
               /\ df.rows[i][ErrorLog] = Str("No Errors")
          ELSE df.rows[i][ErrorLog] # Str("No Errors")

C5_Witness ==
    /\ Scored /\ TotalWeight(error_weights) > 0
    /\ \E i \in 1..NRows(given) : TrueFlags(given, i) = {}
    /\ \E i \in 1..NRows(given) : TrueFlags(given, i) # {}

\* C6: after scoring, every record's Total_Errors is the number of its flag
\* fields (names ending in _Missing, _Outlier, _RangeError, _FormatError or
\* _AnomalyIF) that are true, whatever the weight table.
C6_TotalErrorsCountsTrueFlags ==
    Scored => \A i \in 1..NRows(given) :
                 df.rows[i][TotalErrors] = Num(Cardinality(TrueFlags(given, i)))

C6_Witness ==
    /\ Scored
    /\ \E k \in DOMAIN error_weights : error_weights[k] \notin {0, 1}
    /\ \E i \in 1..NRows(given) :
          /\ Cardinality(TrueFlags(given, i)) = 1
          /\ df.rows[i][WeightedErrors] # df.rows[i][TotalErrors]

(* The entry the error log is to hold for a true flag <Field>_<Kind>: the  *)
(* record's value of <Field>, N/A when the data set has no such field.     *)
FieldOf(flag) == SubSeq(flag, 1, Len(flag) - 1)

RECURSIVE ExpectedEntries(_, _, _)
ExpectedEntries(f, i, cols) ==
    IF cols = <<>> THEN <<>>
    ELSE (IF IsFlag(Head(cols)) /\ Truthy(f.rows[i][Head(cols)])
          THEN <<[flag  |-> Head(cols),
                  value |-> RowGet(f.rows[i], FieldOf(Head(cols)), Str("N/A"))]>>
          ELSE <<>>)
         \o ExpectedEntries(f, i, Tail(cols))

\* C9, as stated: a record's Error_Log lists, in flag-column order, one
\* entry "<flag_name> (<value>)" per true flag and none for a false flag,
\* <value> being the record's value of the field the flag derives from
\* (underscores in the field's name included), and N/A only for a flag with
\* no base field in the data set.
C9_ErrorLogNamesBaseFieldValue ==
    Scored => \A i \in 1..NRows(given) :
                 LET expected == ExpectedEntries(given, i, given.columns)
                 IN  df.rows[i][ErrorLog] =
                        (IF expected = <<>> THEN Str("No Errors") ELSE Log(expected))

TrueMissingFlags(f, i) ==
    {c \in Range(f.columns) : EndsWith(c, "Missing") /\ Truthy(f.rows[i][c])}

NullCells(f, i) == {c \in Range(f.columns) : IsNull(f.rows[i][c])}

\* C4: after missing_value_analysis on a data set of original fields, with
\* zero_as_missing_cols a set of its fields, every record's
\* Completeness_Score is 100 * (1 - (its null cells + its true
\* <Field>_Missing flags) / number of original fields), the denominator
\* counting the original fields only, and lies in [0, 100].
C4_CompletenessFormula ==
    ( /\ "missing" \in done
      /\ Range(zero_as_missing_cols) \subseteq Range(given.columns) )
    => /\ raised = "none"
       /\ \A i \in 1..NRows(given) :
             LET missing == Cardinality(NullCells(df, i))
                            + Cardinality(TrueMissingFlags(df, i))
                 fields  == Len(given.columns)
                 score   == df.rows[i][Completeness]
             IN  /\ IsNum(score)
                 /\ RatEq(score, RatMul(Num(100), RatSub(Num(1), Rat(missing, fields))))
                 /\ RatLe(Num(0), score) /\ RatLe(score, Num(100))

C4_Witness ==
    /\ "missing" \in done /\ raised = "none"
    /\ HasColumn(df, Name(SkinThickness, "Missing"))
    /\ \E i \in 1..NRows(given) :
          /\ given.rows[i][Sex] = Str("Unknown")
          /\ Truthy(df.rows[i][Name(SkinThickness, "Missing")])
          /\ SameCell(df.rows[i][Completeness], Num(0))
    /\ \E i \in 1..NRows(given) :
          /\ NullCells(df, i) = {}
          /\ SameCell(df.rows[i][Completeness], Num(100))

\* C7, as stated: after outlier_detection, for every configured field of
\* the data set and every record, <Field>_Outlier is false when the value v
\* satisfies Q1 - 1.5*IQR <= v <= Q3 + 1.5*IQR (quartiles over the field's
\* non-missing values), and is false when the value is missing.
C7_OutlierFlagFalseInsideFenceOrMissing ==
    ("outlier" \in done /\ raised = "none")
    => \A j \in DOMAIN outlier_columns :
          LET col   == outlier_columns[j]
              fence == Fence(Column(given, col))
          IN  \A i \in 1..NRows(given) :
                 ( \/ ~IsNum(given.rows[i][col])
                   \/ between(given.rows[i][col], fence.lower, fence.upper) )
                 => ~Truthy(df.rows[i][Name(col, "Outlier")])

(* the flag field a stage adds for a field its configuration names *)
FlagsAdded(stage_done, cols, kind) ==
    stage_done =>
        \A j \in DOMAIN cols :
            HasColumn(df, Name(cols[j], kind)) <=> HasColumn(given, cols[j])

RangeFields == [j \in DOMAIN clinical_ranges |-> clinical_ranges[j][1]]

\* C8, as stated: a field name of the configuration (clinical_ranges,
\* zero_as_missing_cols or outlier_columns) that is no field of the data set
\* is skipped silently: the stage that receives it raises no error, adds no
\* flag for it, and still adds the flag of every named field that is
\* present.
C8_AbsentFieldSkippedSilently ==
    /\ raised # "KeyError"
    /\ FlagsAdded("missing" \in done, zero_as_missing_cols, "Missing")
    /\ FlagsAdded("outlier" \in done, outlier_columns, "Outlier")
    /\ FlagsAdded("range" \in done, RangeFields, "RangeError")

(* main()'s own order of the stages before the scoring, as one computation *)
InMainOrder ==
    LET m == missing_value_analysis(given, zero_as_missing_cols).df
        o == outlier_detection(m, outlier_columns).df
        a == anomaly_detection_isolation_forest(o, outlier_columns, iso_oracle).df
        r == clinical_range_check(a, clinical_ranges).df
    IN  [analysed |-> m, flagged |-> pattern_and_format_checks(r).df]

Detected == Detectors \subseteq done /\ raised = "none"

\* C10: after missing_value_analysis, the four detectors applied in any
\* order give every record the same value of every flag field as main()'s
\* order does and leave every original field and Completeness_Score as
\* missing_value_analysis left them, so that the scoring gives every record
\* the same Total_Errors, Weighted_Errors and Quality_Score.
C10_DetectorOrderIrrelevant ==
    Detected =>
        LET main   == InMainOrder
            scored == classify_errors_and_score(main.flagged, error_weights).df
        IN  /\ Range(ErrorCols(df)) = Range(ErrorCols(main.flagged))
            /\ \A i \in 1..NRows(given) :
                  /\ \A c \in Range(ErrorCols(df)) :
                        df.rows[i][c] = main.flagged.rows[i][c]
                  /\ \A c \in Range(main.analysed.columns) :
                        df.rows[i][c] = main.analysed.rows[i][c]
                  /\ "score" \in done =>
                        \A c \in {TotalErrors, WeightedErrors, QualityScore} :
                            SameCell(df.rows[i][c], scored.rows[i][c])

C10_Witness ==
    /\ Detected /\ "score" \in done
    /\ ErrorCols(df) # ErrorCols(InMainOrder.flagged)
    /\ \E i \in 1..NRows(given) : Cardinality(TrueFlags(df, i)) >= 3
    /\ \E i \in 1..NRows(given) : TrueFlags(df, i) = {}

====
